---- MODULE Spec2Model ----
\* Model of .github/workflows/rename_images.py: the change-set driver
\* (__main__), the rename orchestrator (describe_and_rename_image) and the
\* string helpers (sanitize_filename, get_local_path_from_github_url).
\*
\* A Python str is modelled as a sequence of one-character strings, so that
\* replace / split / join / splitext are computed character by character.
EXTENDS Integers, Sequences, FiniteSets, TLC

VARIABLES
    env,          \* environment variables, event payload, as read at start-up
    pc,           \* position of the driver: start, submit, poll, describe, commit, exited
    exitCode,     \* process exit code, meaningful once pc = "exited"
    exitWhy,      \* which exit of the script was taken
    repoIsGit,    \* whether the name `repo` is still bound to the git.Repo
    image_files,  \* the list the per-file loop iterates over
    idx,          \* 1-based position of the loop in image_files
    task_id,      \* task id obtained by the current submission
    attempt,      \* number of status requests issued for file `cur`
    slept,        \* seconds slept in the poll loop of file `cur`
    pollEnd,      \* how the poll loop of file `cur` ended, not_polled when
                  \* its submission raised
    full_zip_url, \* bundle location of file `cur`
    task_res,     \* what the last status request of file `cur` brought
    call,         \* what the call of describe_and_rename_image just made met
    startTree,    \* the working copy as the current run found it
    cur,          \* file (index) the poll variables belong to, 0 before any
    outcome,      \* per file: pending, skipped, renamed, pushed, fatal
    tree,         \* paths present in the working copy
    releases,     \* titles of the releases present in the release store
    log,          \* externally visible operations of this run, in order
    run,          \* number of the current run of the script
    fnIn,         \* argument of the helper under test (helper specification)
    fnForm,       \* how fnIn was built (helper specification)
    fnOut,        \* result of the helper under test
    fnOp          \* which helper was applied

vars == <<env, pc, exitCode, exitWhy, repoIsGit, image_files, idx, task_id,
          attempt, slept, pollEnd, full_zip_url, task_res, call, startTree,
          cur, outcome, tree, releases, log, run, fnIn, fnForm, fnOut, fnOp>>

driverVars == <<env, pc, exitCode, exitWhy, repoIsGit, image_files, idx,
                task_id, attempt, slept, pollEnd, full_zip_url, task_res,
                call, startTree, cur, outcome, tree, releases, log, run>>

fnVars == <<fnIn, fnForm, fnOut, fnOp>>

-----------------------------------------------------------------------------
\* Python values

\* Python's None where a str is expected: a sequence no str can equal
\* (every element of a str is a one-character string).
None == <<"None">>

\* a test for None alone, which lets the empty string through
FalsyNoneOnly(x) == x = None

\* `not x` for x an Optional[str]
Falsy(x) == x = None \/ x = <<>>

Letters ==
    {"a", "b", "c", "d", "e", "f", "g", "h", "i", "j", "l", "m", "n", "o", "p",
     "r", "s", "t", "u", "x", "y", "B", "G", "J", "P"}

Digits == {"0", "1", "7"}

\* str.isalnum() for one character
isalnum(c) == c \in Letters \cup Digits

\* str.lower() for one character
LowerChar(c) ==
    CASE c = "B" -> "b"
      [] c = "G" -> "g"
      [] c = "J" -> "j"
      [] c = "P" -> "p"
      [] OTHER -> c

\* str.lower()
Lower(s) == [k \in 1..Len(s) |-> LowerChar(s[k])]

\* str.startswith(p)
StartsWith(s, p) == Len(s) >= Len(p) /\ SubSeq(s, 1, Len(p)) = p

\* str.endswith(p)
EndsWith(s, p) ==
    Len(s) >= Len(p) /\ SubSeq(s, Len(s) - Len(p) + 1, Len(s)) = p

\* str.replace(old, new): every non-overlapping occurrence, left to right
RECURSIVE Replace(_, _, _)
Replace(s, old, new) ==
    IF s = <<>> THEN <<>>
    ELSE IF old # <<>> /\ StartsWith(s, old)
         THEN new \o Replace(SubSeq(s, Len(old) + 1, Len(s)), old, new)
         ELSE <<Head(s)>> \o Replace(Tail(s), old, new)

\* str.split(sep) for a one-character separator: always at least one part
RECURSIVE SplitFrom(_, _, _)
SplitFrom(s, sep, acc) ==
    IF s = <<>> THEN <<acc>>
    ELSE IF Head(s) = sep
         THEN <<acc>> \o SplitFrom(Tail(s), sep, <<>>)
         ELSE SplitFrom(Tail(s), sep, Append(acc, Head(s)))

Split(s, sep) == SplitFrom(s, sep, <<>>)

\* sep.join(parts)
RECURSIVE Join(_, _)
Join(parts, sep) ==
    IF parts = <<>> THEN <<>>
    ELSE IF Len(parts) = 1 THEN parts[1]
    ELSE parts[1] \o <<sep>> \o Join(Tail(parts), sep)

\* position of the last occurrence of character c in s, 0 when absent
LastIndex(s, c) ==
    LET hits == {k \in 1..Len(s) : s[k] = c}
    IN  IF hits = {} THEN 0 ELSE CHOOSE k \in hits : \A h \in hits : h <= k

\* os.path.basename
basename(p) == SubSeq(p, LastIndex(p, "/") + 1, Len(p))

\* os.path.dirname (posixpath): the head, without its trailing slashes
\* unless it consists of slashes only
RECURSIVE RStripSlash(_)
RStripSlash(s) ==
    IF s # <<>> /\ s[Len(s)] = "/" THEN RStripSlash(SubSeq(s, 1, Len(s) - 1))
    ELSE s

dirname(p) ==
    LET head == SubSeq(p, 1, LastIndex(p, "/"))
    IN  IF head # <<>> /\ RStripSlash(head) # <<>> THEN RStripSlash(head)
        ELSE head

\* os.path.splitext (posixpath): the extension starts at the last dot of the
\* name, unless only dots precede it
splitext(name) ==
    LET slash == LastIndex(name, "/")
        dot   == LastIndex(name, ".")
        lead  == \A k \in (slash + 1)..(dot - 1) : name[k] = "."
    IN  IF dot > slash /\ ~lead
        THEN <<SubSeq(name, 1, dot - 1), SubSeq(name, dot, Len(name))>>
        ELSE <<name, <<>>>>

\* os.path.join(a, b) (posixpath)
pathjoin(a, b) ==
    IF StartsWith(b, <<"/">>) THEN b
    ELSE IF a = <<>> \/ a[Len(a)] = "/" THEN a \o b
    ELSE a \o <<"/">> \o b

-----------------------------------------------------------------------------
\* String literals of the script

GitHubPrefix ==
    <<"h", "t", "t", "p", "s", ":", "/", "/", "g", "i", "t", "h", "u", "b",
      ".", "c", "o", "m", "/">>

Blob == <<"/", "b", "l", "o", "b", "/">>

ImagesDir == <<"i", "m", "a", "g", "e", "s", "/">>

ImageExtensions ==
    {<<".", "p", "n", "g">>, <<".", "j", "p", "g">>,
     <<".", "j", "p", "e", "g">>, <<".", "g", "i", "f">>,
     <<".", "b", "m", "p">>, <<".", "w", "e", "b", "p">>}

-----------------------------------------------------------------------------
\* The helpers

\* a clean-up that removes the special characters instead of replacing them
sanitize_removing(filename) == SelectSeq(filename, isalnum)

\* sanitize_filename: "".join(c if c.isalnum() else "_" for c in filename)
sanitize_filename(filename) ==
    [k \in 1..Len(filename) |->
        IF isalnum(filename[k]) THEN filename[k] ELSE "_"]

\* get_local_path_from_github_url: parts[3] raises IndexError (caught, None)
\* when the URL has fewer than four parts after the prefix is removed
get_local_path_from_github_url(github_url) ==
    LET parts == Split(Replace(github_url, GitHubPrefix, <<>>), "/")
    IN  IF Len(parts) < 4 THEN None
        ELSE Join(SubSeq(parts, 5, Len(parts)), "/")

-----------------------------------------------------------------------------
\* Inputs: environments and event payloads

PathA == <<"i", "m", "a", "g", "e", "s", "/", "a", ".", "p", "n", "g">>
PathB == <<"i", "m", "a", "g", "e", "s", "/", "b", ".", "J", "P", "G">>
PathDoc == <<"d", "o", "c", "s", "/", "c", ".", "p", "n", "g">>
PathTxt == <<"i", "m", "a", "g", "e", "s", "/", "n", ".", "t", "x", "t">>
PathTaken == <<"i", "m", "a", "g", "e", "s", "/", "x", "_", "y", "_", "1", ".", "p", "n", "g">>

RefMain == <<"m", "a", "i", "n">>
RefSlash == <<"f", "/", "x">>
RepoName == <<"o", "/", "r">>
RepoNoSlash == <<"o">>

\* number of runs of the script over the same working copy
MaxRuns == 2

\* an entry of a commit's added / modified list: GitHub sends the path itself
\* (isDict = FALSE); the script indexes each entry with ["filename"]
DictEntry(p) == [isDict |-> TRUE, name |-> p]
StrEntry(p) == [isDict |-> FALSE, name |-> p]

Commit(a, m) == [added |-> a, modified |-> m]

Push(cs) == [kind |-> "push", commits |-> cs, prFiles |-> <<>>]
PullRequest(fs) == [kind |-> "pull_request", commits |-> <<>>, prFiles |-> fs]

Payloads ==
    { Push(<<Commit(<<DictEntry(PathA)>>, <<>>)>>),
      Push(<<Commit(<<DictEntry(PathA)>>, <<>>),
             Commit(<<DictEntry(PathDoc)>>, <<DictEntry(PathA)>>)>>),
      Push(<<Commit(<<DictEntry(PathA), DictEntry(PathTxt)>>,
                    <<DictEntry(PathB)>>)>>),
      Push(<<Commit(<<StrEntry(PathA)>>, <<>>)>>),
      Push(<<Commit(<<>>, <<>>)>>),
      Push(<<Commit(<<DictEntry(PathDoc)>>, <<>>)>>),
      PullRequest(<<PathA, PathDoc>>),
      PullRequest(<<>>),
      [kind |-> "other", commits |-> <<>>, prFiles |-> <<>>],
      [kind |-> "malformed", commits |-> <<>>, prFiles |-> <<>>] }

BaseEnv(ev) ==
    [GITHUB_TOKEN |-> TRUE, GITHUB_REF_NAME |-> RefMain,
     GITHUB_REPOSITORY |-> RepoName, eventFile |-> TRUE, event |-> ev]

SomePush == Push(<<Commit(<<DictEntry(PathA)>>, <<>>)>>)

\* the environments the runs are started in: every payload under a complete
\* configuration, and each configuration defect on its own
Envs ==
    {BaseEnv(ev) : ev \in Payloads}
    \cup {[BaseEnv(ev) EXCEPT !.GITHUB_REF_NAME = RefSlash] :
            ev \in {SomePush, PullRequest(<<PathA, PathDoc>>)}}
    \cup {[BaseEnv(SomePush) EXCEPT !.GITHUB_TOKEN = FALSE],
          [BaseEnv(SomePush) EXCEPT !.GITHUB_REF_NAME = None],
          [BaseEnv(SomePush) EXCEPT !.GITHUB_REPOSITORY = None],
          [BaseEnv(SomePush) EXCEPT !.GITHUB_REPOSITORY = RepoNoSlash],
          [BaseEnv(SomePush) EXCEPT !.eventFile = FALSE]}

\* every path a payload names
RECURSIVE EntryNames(_)
EntryNames(es) ==
    IF es = <<>> THEN {} ELSE {Head(es).name} \cup EntryNames(Tail(es))

RECURSIVE CommitPaths(_)
CommitPaths(cs) ==
    IF cs = <<>> THEN {}
    ELSE EntryNames(Head(cs).added) \cup EntryNames(Head(cs).modified)
         \cup CommitPaths(Tail(cs))

PayloadPaths(ev) ==
    CommitPaths(ev.commits) \cup {ev.prFiles[k] : k \in 1..Len(ev.prFiles)}

\* working copies at the first start: the checkout holds the files the event
\* names, with or without an unrelated image that already has the name the
\* summary leads to
InitTrees(ev) ==
    {PayloadPaths(ev)}
    \cup (IF ev = SomePush THEN {PayloadPaths(ev) \cup {PathTaken}} ELSE {})

\* answers of the language model, stripped: none (error), empty, or a phrase
Summaries == {None, <<>>, <<"x", "/", "y", " ", "1">>}

\* bundle location reported by the extraction service
ZipUrl == <<"z">>

\* text of the first markdown entry of a bundle
MarkdownText == <<"m">>

\* no helper input drawn (the driver's runs)
NoForm ==
    [kind |-> "none", branch |-> <<>>, path |-> <<>>, parts |-> <<>>]

-----------------------------------------------------------------------------
\* The change-set driver: start-up

\* a loop that runs once more than the script's
max_retries_plus_one == 20 + 1

max_retries == 20
retry_delay == 5

\* the [file["filename"] for file in added + modified if ...startswith("images/")]
\* of one commit
RECURSIVE FilenamesUnderImages(_)
FilenamesUnderImages(es) ==
    IF es = <<>> THEN <<>>
    ELSE (IF StartsWith(Head(es).name, ImagesDir) THEN <<Head(es).name>>
          ELSE <<>>) \o FilenamesUnderImages(Tail(es))

\* files.extend(...) over the commits, in order, without removing repetitions
RECURSIVE push_files(_)
push_files(commits) ==
    IF commits = <<>> THEN <<>>
    ELSE FilenamesUnderImages(Head(commits).added \o Head(commits).modified)
         \o push_files(Tail(commits))

\* file["filename"] raises TypeError when an entry is the path itself
PushRaises(commits) ==
    \E c \in 1..Len(commits) :
        LET es == commits[c].added \o commits[c].modified
        IN  \E k \in 1..Len(es) : ~es[k].isDict

\* files of the pull request that lie under images/
pr_files(fs) == SelectSeq(fs, LAMBDA f : StartsWith(f, ImagesDir))

\* file.lower().endswith((".png", ".jpg", ".jpeg", ".gif", ".bmp", ".webp"))
IsImage(f) == \E e \in ImageExtensions : EndsWith(Lower(f), e)

only_images(files) == SelectSeq(files, IsImage)

\* a start-up check that looks at the token alone
ConfigTokenOnly(e) == e.GITHUB_TOKEN

\* all([github_token, release_name, github_repository])
ConfigComplete(e) ==
    /\ e.GITHUB_TOKEN
    /\ ~Falsy(e.GITHUB_REF_NAME)
    /\ ~Falsy(e.GITHUB_REPOSITORY)

\* f"https://github.com/{github_repository}/blob/{release_name}/{image_file}"
github_url(e, image_file) ==
    GitHubPrefix \o e.GITHUB_REPOSITORY \o Blob \o e.GITHUB_REF_NAME
        \o <<"/">> \o image_file

Entry(op, i) == [op |-> op, file |-> i, src |-> <<>>, dst |-> <<>>]

Exit(code, why) ==
    /\ pc' = "exited"
    /\ exitCode' = code
    /\ exitWhy' = why

\* `continue`, or the end of the loop body: the next file, or the end of the
\* script with exit code 0
NextFile ==
    IF idx < Len(image_files)
    THEN /\ pc' = "submit"
         /\ idx' = idx + 1
         /\ UNCHANGED <<exitCode, exitWhy>>
    ELSE /\ Exit(0, "finished")
         /\ idx' = idx

\* everything up to the first iteration of the per-file loop
Start ==
    /\ pc = "start"
    /\ UNCHANGED <<env, task_id, attempt, slept, pollEnd, full_zip_url,
                   task_res, call, startTree, cur, tree, releases, log, run,
                   fnVars>>
    /\ IF ~ConfigComplete(env)
       THEN Exit(1, "config")
            /\ UNCHANGED <<repoIsGit, image_files, idx, outcome>>
       ELSE IF ~env.eventFile
       THEN Exit(1, "no_event")
            /\ UNCHANGED <<repoIsGit, image_files, idx, outcome>>
       ELSE IF env.event.kind = "malformed"
       THEN Exit(1, "crash")
            /\ UNCHANGED <<repoIsGit, image_files, idx, outcome>>
       ELSE IF env.event.kind = "push" /\ PushRaises(env.event.commits)
       THEN Exit(1, "crash")
            /\ UNCHANGED <<repoIsGit, image_files, idx, outcome>>
       ELSE IF env.event.kind = "other"
       THEN Exit(1, "unsupported")
            /\ UNCHANGED <<repoIsGit, image_files, idx, outcome>>
       ELSE \E apiOk \in BOOLEAN :
            LET isPr  == env.event.kind = "pull_request"
                files == IF isPr THEN pr_files(env.event.prFiles)
                         ELSE push_files(env.event.commits)
                imgs  == only_images(files)
            IN  IF isPr /\ ~apiOk
                THEN \* get_repo / get_pull / get_files raised
                     Exit(1, "crash")
                     /\ repoIsGit' = FALSE
                     /\ UNCHANGED <<image_files, idx, outcome>>
                ELSE /\ repoIsGit' = ~isPr
                     /\ image_files' = imgs
                     /\ outcome' = [k \in 1..Len(imgs) |-> "pending"]
                     /\ IF imgs = <<>>
                        THEN Exit(0, "nothing") /\ idx' = idx
                        ELSE /\ pc' = "submit"
                             /\ idx' = 1
                             /\ UNCHANGED <<exitCode, exitWhy>>

-----------------------------------------------------------------------------
\* The per-file loop: submission and polling

\* a driver that submits the next file while the task is still running
SubmitNextWithoutWaiting ==
    NextFile

\* lines 248-252: after the submission the driver enters the poll loop of the
\* same file
WaitForTask ==
    /\ pc' = "poll"
    /\ UNCHANGED <<idx, exitCode, exitWhy>>

SubmitResults == {"ok", "no_task_id", "error"}

\* no status request answered yet
NoResponse == [error |-> FALSE, state |-> "", url |-> None]

\* lines 203-246: build the URLs, post the extraction task
Submit ==
    /\ pc = "submit"
    /\ UNCHANGED <<env, repoIsGit, image_files, call, startTree, tree,
                   releases, run, fnVars>>
    /\ IF Len(Split(env.GITHUB_REPOSITORY, "/")) < 2
       THEN \* github_repository.split("/")[1] raises IndexError, uncaught
            /\ Exit(1, "crash")
            /\ outcome' = [outcome EXCEPT ![idx] = "fatal"]
            /\ UNCHANGED <<idx, task_id, attempt, slept, pollEnd,
                           full_zip_url, task_res, cur, log>>
       ELSE \E res \in SubmitResults :
            /\ log' = Append(log, Entry("submit", idx))
            /\ task_res' = NoResponse
            /\ cur' = idx
            /\ attempt' = 0
            /\ slept' = 0
            /\ pollEnd' = IF res = "error" THEN "not_polled" ELSE "none"
            /\ IF res = "error"
               THEN \* RequestException, JSONDecodeError or any other: continue
                    /\ outcome' = [outcome EXCEPT ![idx] = "skipped"]
                    /\ NextFile
                    /\ UNCHANGED <<task_id, full_zip_url>>
               ELSE /\ task_id' = IF res = "ok" THEN <<"t">> ELSE None
                    /\ full_zip_url' = None
                    /\ WaitForTask
                    /\ UNCHANGED outcome

\* what one status request can bring: an exception, or a state with or
\* without a bundle location
PollResponses ==
    {[error |-> TRUE, state |-> "", url |-> None],
     [error |-> FALSE, state |-> "pending", url |-> None]}
    \cup {[error |-> FALSE, state |-> st, url |-> u] :
            st \in {"done", "failed"}, u \in {None, ZipUrl}}

\* a loop that keeps the location a failed task reports
UrlAfterKeepingFailed(r) ==
    IF ~r.error /\ r.state \in {"done", "failed"} THEN r.url ELSE None

\* the value of full_zip_url after an attempt that got response r
UrlAfter(r) ==
    IF ~r.error /\ r.state = "done" THEN r.url ELSE None

\* a loop that goes on polling after a failed task
EndAfterIgnoringFailed(r, n) ==
    IF r.error THEN "error"
    ELSE IF r.state = "done" THEN "done"
    ELSE IF n = max_retries THEN "exhausted"
    ELSE "none"

\* how the loop stands after the attempt numbered n got response r
EndAfter(r, n) ==
    IF r.error THEN "error"
    ELSE IF r.state = "done" THEN "done"
    ELSE IF r.state = "failed" THEN "failed"
    ELSE IF n = max_retries THEN "exhausted"
    ELSE "none"

\* lines 252-281: one iteration of the poll loop and, when the loop ends with
\* it, the test of full_zip_url
Poll ==
    /\ pc = "poll"
    /\ attempt < max_retries
    /\ UNCHANGED <<env, repoIsGit, image_files, task_id, call, startTree, cur,
                   tree, releases, log, run, fnVars>>
    /\ \E r \in PollResponses :
        /\ task_res' = r
        /\ slept' = slept + retry_delay
        /\ attempt' = attempt + 1
        /\ pollEnd' = EndAfter(r, attempt + 1)
        /\ full_zip_url' = UrlAfter(r)
        /\ IF EndAfter(r, attempt + 1) = "none"
           THEN UNCHANGED <<pc, idx, exitCode, exitWhy, outcome>>
           ELSE IF Falsy(UrlAfter(r))
           THEN /\ outcome' = [outcome EXCEPT ![idx] = "skipped"]
                /\ NextFile
           ELSE /\ pc' = "describe"
                /\ UNCHANGED <<idx, exitCode, exitWhy, outcome>>

-----------------------------------------------------------------------------
\* The rename orchestrator and the bundle processor

UploadResults == {"ok", "fail_lookup", "fail_create", "fail_asset"}
ZipKinds == {"md", "emptymd", "nomd", "badzip"}

\* the calls upload_zip_to_release makes and the release store it leaves:
\* look the release up by title, create it when absent, upload the asset
UploadSteps(up, rels, release_name, i) ==
    IF up = "fail_lookup"
    THEN [ops |-> <<Entry("release_lookup", i)>>, releases |-> rels]
    ELSE IF release_name \in rels
    THEN [ops |-> <<Entry("release_lookup", i), Entry("upload_asset", i)>>,
          releases |-> rels]
    ELSE IF up = "fail_create"
    THEN [ops |-> <<Entry("release_lookup", i), Entry("create_release", i)>>,
          releases |-> rels]
    ELSE [ops |-> <<Entry("release_lookup", i), Entry("create_release", i),
                    Entry("upload_asset", i)>>,
          releases |-> rels \cup {release_name}]

\* whether one of those calls raised
UploadFails(up, rels, release_name) ==
    \/ up \in {"fail_lookup", "fail_asset"}
    \/ up = "fail_create" /\ release_name \notin rels

\* an upload without the try: its exception reaches the caller
upload_zip_to_release_raising(up, rels, release_name, i) ==
    [ops |-> UploadSteps(up, rels, release_name, i).ops,
     releases |-> UploadSteps(up, rels, release_name, i).releases,
     raised |-> UploadFails(up, rels, release_name)]

\* upload_zip_to_release: any exception is caught and logged, none leaves
upload_zip_to_release(up, rels, release_name, i) ==
    [ops |-> UploadSteps(up, rels, release_name, i).ops,
     releases |-> UploadSteps(up, rels, release_name, i).releases,
     raised |-> FALSE]

\* extract_markdown_and_upload_to_release: the text of the first .md entry
\* (None without one), after the upload; None when the archive cannot be read
extract_markdown_and_upload_to_release(zip, up, rels, release_name, i) ==
    IF zip = "badzip"
    THEN [md |-> None, ops |-> <<>>, releases |-> rels]
    ELSE LET u == upload_zip_to_release(up, rels, release_name, i)
         IN  [md |-> CASE u.raised -> None
                       [] zip = "md" -> MarkdownText
                       [] zip = "emptymd" -> <<>>
                       [] OTHER -> None,
              ops |-> u.ops, releases |-> u.releases]

\* a target built from the summary as the model returned it
new_path_unsanitized(local_path, summary) ==
    pathjoin(dirname(local_path),
             summary \o splitext(basename(local_path))[2])

\* the path the move is asked to create: sanitized summary plus the extension
\* of the local path, in the directory of the local path
new_path_for(local_path, summary) ==
    LET ext == splitext(basename(local_path))[2]
    IN  pathjoin(dirname(local_path), sanitize_filename(summary) \o ext)

\* git mv fails when the source is not in the working copy or the target is
GitMvSucceeds(t, src, dst) == src \in t /\ dst \notin t

Failed(ops, t, rels) ==
    [ok |-> FALSE, ops |-> ops, tree |-> t, releases |-> rels]

\* describe_and_rename_image for file i: dl is the outcome of the download,
\* zip the kind of archive, up the fate of the upload, summary the answer of
\* summarize_text_with_openai
describe_and_rename_image(i, dl, zip, up, summary) ==
    LET download == <<Entry("download", i)>>
        x == extract_markdown_and_upload_to_release(
                 zip, up, releases, env.GITHUB_REF_NAME, i)
        local_path ==
            get_local_path_from_github_url(github_url(env, image_files[i]))
        new_path == new_path_for(local_path, summary)
        mv == [op |-> "mv", file |-> i, src |-> local_path, dst |-> new_path]
    IN  IF dl # "ok" THEN Failed(download, tree, releases)
        ELSE IF ~repoIsGit
        THEN \* repo.working_dir raises AttributeError: repo is not the git.Repo
             Failed(download, tree, releases)
        ELSE IF Falsy(x.md) THEN Failed(download \o x.ops, tree, x.releases)
        ELSE IF Falsy(summary)
        THEN Failed(download \o x.ops \o <<Entry("summarize", i)>>,
                    tree, x.releases)
        ELSE IF Falsy(local_path)
        THEN Failed(download \o x.ops \o <<Entry("summarize", i)>>,
                    tree, x.releases)
        ELSE IF ~GitMvSucceeds(tree, local_path, new_path)
        THEN Failed(download \o x.ops \o <<Entry("summarize", i), mv>>,
                    tree, x.releases)
        ELSE [ok |-> TRUE,
              ops |-> download \o x.ops \o <<Entry("summarize", i), mv>>,
              tree |-> (tree \ {local_path}) \cup {new_path},
              releases |-> x.releases]

\* what the outside world answers during one call: the inputs that are never
\* read (nothing is uploaded from a bundle that was not downloaded, nothing
\* is summarized without markdown) are left at one value
AllDescribeInputs ==
    [file : {0}, dl : {"ok", "fail"}, zip : ZipKinds, up : UploadResults,
     summary : Summaries]

\* no call made yet
NoCall == [file |-> 0, dl |-> "", zip |-> "", up |-> "", summary |-> None]

DescribeInputs ==
    AllDescribeInputs
    \ {in \in AllDescribeInputs :
        \/ in.dl = "fail" /\ <<in.zip, in.up, in.summary>> # <<"md", "ok", None>>
        \/ in.zip = "badzip" /\ <<in.up, in.summary>> # <<"ok", None>>
        \/ in.zip \in {"nomd", "emptymd"} /\ in.summary # None}

\* line 283 and lines 292-294: the call and the exit on failure
Describe ==
    /\ pc = "describe"
    /\ UNCHANGED <<env, repoIsGit, image_files, idx, task_id, attempt, slept,
                   pollEnd, full_zip_url, task_res, startTree, cur, run,
                   fnVars>>
    /\ \E in \in DescribeInputs :
        LET d == describe_and_rename_image(idx, in.dl, in.zip, in.up,
                                           in.summary)
        IN  /\ call' = [in EXCEPT !.file = idx]
            /\ log' = log \o d.ops
            /\ tree' = d.tree
            /\ releases' = d.releases
            /\ IF d.ok
               THEN /\ pc' = "commit"
                    /\ outcome' = [outcome EXCEPT ![idx] = "renamed"]
                    /\ UNCHANGED <<exitCode, exitWhy>>
               ELSE /\ Exit(1, "rename_failed")
                    /\ outcome' = [outcome EXCEPT ![idx] = "fatal"]

\* a driver that takes a failed commit or push as one more skipped file
ContinueOnGitError(why) ==
    NextFile

\* lines 288-290: an exception of the commit or of the push ends the script
StopOnGitError(why) ==
    /\ Exit(1, why)
    /\ idx' = idx

\* lines 284-290: stage, commit, push
CommitPush ==
    /\ pc = "commit"
    /\ UNCHANGED <<env, repoIsGit, image_files, task_id, attempt, slept,
                   pollEnd, full_zip_url, task_res, startTree, cur, tree,
                   releases, run, fnVars>>
    /\ call' = NoCall
    /\ \E addOk \in BOOLEAN, commitOk \in BOOLEAN, pushOk \in BOOLEAN :
        IF ~addOk
        THEN \* repo.git.add is outside the try: the exception ends the script
             /\ log' = Append(log, Entry("add_failed", idx))
             /\ outcome' = [outcome EXCEPT ![idx] = "fatal"]
             /\ Exit(1, "crash")
             /\ idx' = idx
        ELSE IF ~commitOk
        THEN /\ log' = log \o <<Entry("add", idx), Entry("commit_failed", idx)>>
             /\ outcome' = [outcome EXCEPT ![idx] = "fatal"]
             /\ StopOnGitError("commit_failed")
        ELSE IF ~pushOk
        THEN /\ log' = log \o <<Entry("add", idx), Entry("commit", idx),
                                Entry("push_failed", idx)>>
             /\ outcome' = [outcome EXCEPT ![idx] = "fatal"]
             /\ StopOnGitError("commit_failed")
        ELSE /\ log' = log \o <<Entry("add", idx), Entry("commit", idx),
                                Entry("push", idx)>>
             /\ outcome' = [outcome EXCEPT ![idx] = "pushed"]
             /\ NextFile

\* the script is started again with the same event payload, over the working
\* copy and the release store the previous run left
Rerun ==
    /\ pc = "exited"
    /\ run < MaxRuns
    /\ run' = run + 1
    /\ pc' = "start"
    /\ exitCode' = 0
    /\ exitWhy' = "running"
    /\ repoIsGit' = TRUE
    /\ image_files' = <<>>
    /\ idx' = 0
    /\ task_id' = None
    /\ attempt' = 0
    /\ slept' = 0
    /\ pollEnd' = "none"
    /\ full_zip_url' = None
    /\ task_res' = NoResponse
    /\ call' = NoCall
    /\ startTree' = tree
    /\ cur' = 0
    /\ outcome' = <<>>
    /\ log' = <<>>
    /\ UNCHANGED <<env, tree, releases, fnVars>>

Init ==
    /\ env \in Envs
    /\ pc = "start"
    /\ exitCode = 0
    /\ exitWhy = "running"
    /\ repoIsGit = TRUE
    /\ image_files = <<>>
    /\ idx = 0
    /\ task_id = None
    /\ attempt = 0
    /\ slept = 0
    /\ pollEnd = "none"
    /\ full_zip_url = None
    /\ task_res = NoResponse
    /\ call = NoCall
    /\ cur = 0
    /\ outcome = <<>>
    /\ tree \in InitTrees(env.event)
    /\ startTree = tree
    /\ releases = {}
    /\ log = <<>>
    /\ run = 1
    /\ fnIn = <<>>
    /\ fnForm = NoForm
    /\ fnOut = <<>>
    /\ fnOp = "none"

Next ==
    \/ Start
    \/ Submit
    \/ Poll
    \/ Describe
    \/ CommitPush
    \/ Rerun

Spec == Init /\ [][Next]_vars

-----------------------------------------------------------------------------
\* The helpers on their own: an input is drawn, one helper is applied to it

\* longest text handed to sanitize_filename
MaxLen == 3

\* number of parts of the shortest URL that names a file:
\* owner, repository, "blob", branch and one path segment (parts[4:])
ExpectedParts == 5

TextChars == {"a", "B", "7", "/", " ", ".", "_"}

RECURSIVE StringsOfLen(_, _)
StringsOfLen(chars, n) ==
    IF n = 0 THEN {<<>>}
    ELSE {Append(t, c) : t \in StringsOfLen(chars, n - 1), c \in chars}

Texts == UNION {StringsOfLen(TextChars, n) : n \in 0..MaxLen}

PathFooBar == <<"i", "m", "a", "g", "e", "s", "/", "f", "o", "o", "/", "b", "a", "r", ".", "p", "n", "g">>

UrlSegments == {<<"o">>, <<"b", "l", "o", "b">>, <<>>}

ShortPartLists ==
    UNION {[1..n -> UrlSegments] : n \in 0..(ExpectedParts - 1)}

\* the inputs: a text for sanitize_filename; a URL
\* https://github.com/o/r/blob/BRANCH/<path>; a URL with fewer parts
Forms ==
    {[NoForm EXCEPT !.kind = "text", !.path = t] : t \in Texts}
    \cup {[NoForm EXCEPT !.kind = "url", !.branch = b, !.path = q] :
            b \in {RefMain, RefSlash},
            q \in {PathA, PathB, PathFooBar}}
    \cup {[NoForm EXCEPT !.kind = "short", !.parts = ps] :
            ps \in ShortPartLists}

InputOf(form) ==
    CASE form.kind = "text" -> form.path
      [] form.kind = "url" ->
            GitHubPrefix \o RepoName \o Blob \o form.branch \o <<"/">>
                \o form.path
      [] OTHER -> GitHubPrefix \o Join(form.parts, "/")

Idle ==
    /\ env = BaseEnv(SomePush)
    /\ pc = "idle"
    /\ exitCode = 0
    /\ exitWhy = "running"
    /\ repoIsGit = TRUE
    /\ image_files = <<>>
    /\ idx = 0
    /\ task_id = None
    /\ attempt = 0
    /\ slept = 0
    /\ pollEnd = "none"
    /\ full_zip_url = None
    /\ task_res = NoResponse
    /\ call = NoCall
    /\ startTree = {}
    /\ cur = 0
    /\ outcome = <<>>
    /\ tree = {}
    /\ releases = {}
    /\ log = <<>>
    /\ run = 1

InitFn ==
    /\ Idle
    /\ fnForm \in Forms
    /\ fnIn = InputOf(fnForm)
    /\ fnOut = <<>>
    /\ fnOp = "none"

ApplySanitize ==
    /\ fnOp = "none"
    /\ fnForm.kind = "text"
    /\ fnOut' = sanitize_filename(fnIn)
    /\ fnOp' = "sanitize_filename"
    /\ UNCHANGED <<fnIn, fnForm, driverVars>>

ApplyGetLocalPath ==
    /\ fnOp = "none"
    /\ fnForm.kind \in {"url", "short"}
    /\ fnOut' = get_local_path_from_github_url(fnIn)
    /\ fnOp' = "get_local_path_from_github_url"
    /\ UNCHANGED <<fnIn, fnForm, driverVars>>

NextFn ==
    \/ ApplySanitize
    \/ ApplyGetLocalPath

SpecFn == InitFn /\ [][NextFn]_vars

-----------------------------------------------------------------------------
\* Properties

\* positions of the log that record operation op for file i
OpsAt(op, i) == {k \in 1..Len(log) : log[k].op = op /\ log[k].file = i}

HasOp(op, i) == OpsAt(op, i) # {}

\* operations that follow a bundle location: none of them is made for a file
\* that was skipped
AfterExtraction ==
    {"download", "release_lookup", "create_release", "upload_asset",
     "summarize", "mv", "add", "add_failed", "commit", "commit_failed",
     "push", "push_failed"}

NothingAfterExtraction(i) == \A op \in AfterExtraction : ~HasOp(op, i)

\* an Optional[str] that is None or empty
Absent(x) == x = <<"None">> \/ x = <<>>

Files == 1..Len(image_files)

\* C1: a poll loop in which no status request brought "done", "failed" or an
\* error issues exactly 20 status requests, sleeps 5 seconds before each
\* (100 seconds in all), and ends without a bundle location: the file is
\* skipped, and neither a download nor a move is made for a skipped file.
C1_ExhaustedAfterTwentyPolls ==
    /\ pc = "poll" => /\ attempt < 20
                      /\ pollEnd = "none"
                      /\ slept = 5 * attempt
    /\ (cur > 0 /\ pollEnd = "exhausted") =>
            /\ attempt = 20
            /\ slept = 5 * 20
            /\ ~task_res.error /\ task_res.state = "pending"
            /\ Absent(full_zip_url)
            /\ outcome[cur] = "skipped"
            /\ pc # "describe"
    /\ (cur > 0 /\ pollEnd \in {"none", "exhausted"} /\ pc # "poll"
            /\ attempt > 0) => pollEnd = "exhausted"
    /\ \A i \in Files :
            outcome[i] = "skipped" => ~HasOp("download", i) /\ ~HasOp("mv", i)

C1_Witness ==
    /\ cur = 1
    /\ pollEnd = "exhausted"
    /\ attempt = 20
    /\ slept = 100
    /\ pc = "submit"
    /\ idx = 2

\* C2: the poll loop stops at the first status request that brings "done",
\* "failed" or an error: no further status request is issued for that task;
\* "done" yields the bundle location of the response, "failed" and errors
\* yield none.
C2_TerminalAnswer ==
    cur > 0 /\ (task_res.error \/ task_res.state \in {"done", "failed"})

C2_StopsAtFirstTerminal ==
    /\ [](C2_TerminalAnswer =>
            /\ pc # "poll"
            /\ (~task_res.error /\ task_res.state = "done")
                    => full_zip_url = task_res.url
            /\ (task_res.error \/ task_res.state = "failed")
                    => full_zip_url = <<"None">> /\ outcome[cur] = "skipped")
    /\ [][C2_TerminalAnswer =>
            (cur' = cur /\ run' = run => attempt' = attempt)]_vars

C2_Witness ==
    /\ cur = 1
    /\ task_res.state = "failed"
    /\ task_res.url = ZipUrl
    /\ attempt = 1
    /\ pc = "submit"
    /\ idx = 2

\* file i was submitted and nothing followed: it was skipped
Skipped(i) == HasOp("submit", i) /\ NothingAfterExtraction(i)

\* file i was moved, staged, committed and pushed
FullyProcessed(i) ==
    /\ HasOp("mv", i)
    /\ HasOp("add", i)
    /\ HasOp("commit", i)
    /\ HasOp("push", i)

ConfigMissing ==
    \/ ~env.GITHUB_TOKEN
    \/ Absent(env.GITHUB_REF_NAME)
    \/ Absent(env.GITHUB_REPOSITORY)

\* describe_and_rename_image was called for some file and the commit stage
\* was never entered for it
RenameFailed ==
    \E i \in Files :
        HasOp("download", i) /\ ~HasOp("add", i) /\ ~HasOp("add_failed", i)

CommitOrPushFailed ==
    \E i \in Files :
        HasOp("add_failed", i) \/ HasOp("commit_failed", i)
            \/ HasOp("push_failed", i)

ExitOneCases ==
    \/ ConfigMissing
    \/ ~env.eventFile
    \/ env.event.kind = "other"
    \/ RenameFailed
    \/ CommitOrPushFailed

\* C3, as stated: exit code 0 only when there is no image file to process or
\* every listed file was renamed, committed and pushed; exit code 1 whenever
\* the configuration or the payload is missing, the event is unsupported, a
\* rename fails or a commit/push fails.
C3_ExitZeroOnlyOnFullSuccess ==
    pc = "exited" =>
        /\ exitCode = 0 =>
            (image_files = <<>> \/ \A i \in Files : FullyProcessed(i))
        /\ ExitOneCases => exitCode = 1

\* C3, amended: exit code 0 only when there is no image file to process or
\* every listed file was either skipped (its extraction gave no bundle
\* location) or renamed, committed and pushed; exit code 1 in the cases named.
C3_ExitCodes ==
    pc = "exited" =>
        /\ exitCode \in {0, 1}
        /\ exitCode = 0 =>
            /\ ~ExitOneCases
            /\ \A i \in Files : Skipped(i) \/ FullyProcessed(i)
        /\ ExitOneCases => exitCode = 1

C3_Witness ==
    /\ pc = "exited"
    /\ exitCode = 0
    /\ Len(image_files) = 2
    /\ Skipped(1)
    /\ FullyProcessed(2)

\* C4: a file whose submission raised, or whose polling ended in "failed", an
\* error, exhaustion or "done" without a location, gets no download, upload,
\* move, commit or push; the driver goes on to the next listed file (or ends
\* with exit code 0 after the last); a run in which every file was skipped or
\* fully processed exits 0.
C4_ExtractionFailed ==
    /\ cur > 0
    /\ \/ pollEnd \in {"not_polled", "failed", "error", "exhausted"}
       \/ pollEnd = "done" /\ Absent(full_zip_url)

C4_SkipAndContinue ==
    /\ C4_ExtractionFailed =>
        /\ NothingAfterExtraction(cur)
        /\ IF cur < Len(image_files)
           THEN pc = "submit" /\ idx = cur + 1
           ELSE pc = "exited" /\ exitCode = 0
    /\ \A i \in Files : outcome[i] = "skipped" => Skipped(i)
    /\ (/\ pc = "exited"
        /\ image_files # <<>>
        /\ \A i \in Files : Skipped(i) \/ FullyProcessed(i)) => exitCode = 0

C4_Witness ==
    /\ pc = "exited"
    /\ exitCode = 0
    /\ Len(image_files) = 2
    /\ Skipped(1)
    /\ Skipped(2)
    /\ cur = 2
    /\ pollEnd = "failed"
    /\ attempt = 1

\* the local path the rename orchestrator derives for the file of the call
CallLocalPath ==
    get_local_path_from_github_url(github_url(env, image_files[call.file]))

\* C5: when the bundle has no markdown entry, or no summary is produced, or
\* the web URL gives no local path, describe_and_rename_image requests no
\* move, and the run ends at once with exit code 1: nothing is done for any
\* later file.
C5_ShortCircuit ==
    call.file > 0
    /\ (\/ call.zip = "nomd"
        \/ Absent(call.summary)
        \/ Absent(CallLocalPath))

C5_NoPartialRename ==
    C5_ShortCircuit =>
        /\ ~HasOp("mv", call.file)
        /\ ~HasOp("add", call.file)
        /\ pc = "exited"
        /\ exitCode = 1
        /\ \A k \in 1..Len(log) : log[k].file <= call.file
        /\ \A j \in Files : j > call.file => outcome[j] = "pending"

C5_Witness ==
    /\ call.file = 1
    /\ call.dl = "ok"
    /\ call.zip = "md"
    /\ call.summary = <<>>
    /\ HasOp("summarize", 1)
    /\ Len(image_files) = 2
    /\ pc = "exited"
    /\ exitCode = 1

\* the payload is a push with one commit that adds one image under images/
\* and modifies nothing
OneAddedImage ==
    /\ env.event.kind = "push"
    /\ Len(env.event.commits) = 1
    /\ Len(env.event.commits[1].added) = 1
    /\ env.event.commits[1].modified = <<>>
    /\ StartsWith(env.event.commits[1].added[1].name, ImagesDir)
    /\ IsImage(env.event.commits[1].added[1].name)

\* nothing outside the script went wrong in this run: the task reached
\* "done" with a location, the call got as far as the move, and no git
\* command failed
C6_ServicesSucceed ==
    /\ cur = 0 \/ (pollEnd = "done" /\ ~Absent(full_zip_url))
    /\ HasOp("download", 1) => HasOp("mv", 1)
    /\ ~CommitOrPushFailed

\* C6, as stated: a first run on a push event with one added image under
\* images/, with a complete configuration (repository OWNER/REPO, a branch
\* name without a slash), no file in the way of the new name, and every
\* service and git command succeeding, renames the
\* file to <sanitized summary><extension> in the same directory, makes exactly
\* one commit followed by a push, and exits 0.
C6_PushOneImageRenamed ==
    (/\ pc = "exited"
     /\ run = 1
     /\ OneAddedImage
     /\ ~ConfigMissing
     /\ env.eventFile
     /\ env.GITHUB_REPOSITORY = RepoName
     /\ env.GITHUB_REF_NAME = RefMain
     /\ PathTaken \notin startTree
     /\ C6_ServicesSucceed)
    => /\ exitCode = 0
       /\ FullyProcessed(1)
       /\ Cardinality(OpsAt("commit", 1)) = 1
       /\ \A c \in OpsAt("commit", 1), q \in OpsAt("push", 1) : c < q
       /\ env.event.commits[1].added[1].name \notin tree
       /\ \E m \in OpsAt("mv", 1) :
            /\ log[m].src = env.event.commits[1].added[1].name
            /\ log[m].dst \in tree
            /\ dirname(log[m].dst) = dirname(log[m].src)

\* the image paths of the payload that the driver is to process
PayloadImagePaths ==
    {q \in PayloadPaths(env.event) : StartsWith(q, ImagesDir) /\ IsImage(q)}

\* C7, as stated: a later run with the same payload, started when none of the
\* payload's image paths exists in the working copy any more, submits
\* nothing, renames nothing, commits nothing, and ends with exit code 0.
C7_RerunProcessesNothing ==
    (/\ run > 1
     /\ PayloadImagePaths # {}
     /\ PayloadImagePaths \cap startTree = {})
    => /\ log = <<>>
       /\ pc = "exited" => exitCode = 0

\* every entry of the payload's commits is an object with a "filename"
AllEntriesAreObjects ==
    \A c \in 1..Len(env.event.commits) :
        /\ \A k \in 1..Len(env.event.commits[c].added) :
                env.event.commits[c].added[k].isDict
        /\ \A k \in 1..Len(env.event.commits[c].modified) :
                env.event.commits[c].modified[k].isDict

\* C8, as stated: for a push event the list driven through the per-file loop
\* holds exactly the added and modified paths of all commits that lie under
\* images/ and have an image extension, each of them once.
C8_EachImageOnce ==
    (/\ pc \in {"submit", "poll", "describe", "commit"}
     /\ env.event.kind = "push"
     /\ AllEntriesAreObjects)
    => /\ {image_files[k] : k \in Files} = PayloadImagePaths
       /\ \A j, k \in Files : image_files[j] = image_files[k] => j = k

C10_UrlToLocalPath ==
    fnOp = "get_local_path_from_github_url" =>
        /\ fnForm.kind = "url" => fnOut = fnForm.path
        /\ fnForm.kind = "short" => Absent(fnOut)

\* the entries of a list of operations that do not belong to the archival
NotArchival(ops) ==
    SelectSeq(ops, LAMBDA e :
        e.op \notin {"release_lookup", "create_release", "upload_asset"})

\* C11: archival is best-effort. Whatever the fate of the upload, the bundle
\* processor returns the same markdown text (or none) and
\* describe_and_rename_image gives the same result, the same working copy and
\* the same operations apart from the archival ones; a call whose upload
\* failed goes on to the summary.
C11_BestEffortArchival ==
    /\ pc = "describe" =>
        \A in \in AllDescribeInputs, up \in UploadResults :
            LET a == describe_and_rename_image(idx, in.dl, in.zip, in.up,
                                               in.summary)
                b == describe_and_rename_image(idx, in.dl, in.zip, up,
                                               in.summary)
                x == extract_markdown_and_upload_to_release(
                         in.zip, in.up, releases, env.GITHUB_REF_NAME, idx)
                y == extract_markdown_and_upload_to_release(
                         in.zip, up, releases, env.GITHUB_REF_NAME, idx)
            IN  /\ x.md = y.md
                /\ a.ok = b.ok
                /\ a.tree = b.tree
                /\ NotArchival(a.ops) = NotArchival(b.ops)
    /\ (/\ call.file > 0
        /\ call.zip = "md"
        /\ HasOp("release_lookup", call.file)) => HasOp("summarize", call.file)
    /\ (/\ call.file > 0
        /\ call.up # "ok"
        /\ exitWhy = "rename_failed"
        /\ HasOp("mv", call.file)) =>
            \A m \in OpsAt("mv", call.file) :
                log[m].src \notin tree \/ log[m].dst \in tree

\* the upload failed at the look-up and the file was renamed all the same
C11_Witness ==
    /\ call.file = 1
    /\ call.up = "fail_lookup"
    /\ HasOp("release_lookup", 1)
    /\ ~HasOp("upload_asset", 1)
    /\ HasOp("mv", 1)
    /\ pc = "commit"
    /\ outcome[1] = "renamed"

\* the operations of the commit stage, failed ones included
GitOps == {"add", "add_failed", "commit", "commit_failed", "push",
           "push_failed"}

\* C12: for each file, stage, commit and push come only after that file's
\* rename succeeded, in the order rename, stage, commit, push, with one commit
\* per renamed file and before anything is done for the next file; a failed
\* commit or push is the last thing the run does, and it ends with exit code 1.
C12_CommitAfterRenameInOrder ==
    /\ \A k \in 1..Len(log) :
        LET i == log[k].file
        IN  /\ log[k].op \in {"add", "add_failed"} =>
                \E m \in OpsAt("mv", i) :
                    m < k /\ log[m].dst \in tree /\ log[m].src \notin tree
            /\ log[k].op \in {"commit", "commit_failed"} =>
                \E a \in OpsAt("add", i) : a < k
            /\ log[k].op \in {"push", "push_failed"} =>
                \E c \in OpsAt("commit", i) : c < k
            /\ log[k].op \in GitOps =>
                \A j \in 1..Len(log) : log[j].file > i => k < j
            /\ log[k].op \in {"commit_failed", "push_failed"} =>
                k = Len(log) /\ pc = "exited" /\ exitCode = 1
    /\ \A i \in Files :
        /\ Cardinality(OpsAt("commit", i)) <= 1
        /\ Cardinality(OpsAt("push", i)) <= 1
        /\ outcome[i] = "pushed" =>
            /\ Cardinality(OpsAt("mv", i)) = 1
            /\ Cardinality(OpsAt("add", i)) = 1
            /\ Cardinality(OpsAt("commit", i)) = 1
            /\ Cardinality(OpsAt("push", i)) = 1

\* the first file was renamed, committed and pushed; the push of the second
\* file's commit failed and the run ended there
C12_Witness ==
    /\ Len(image_files) = 2
    /\ outcome[1] = "pushed"
    /\ HasOp("mv", 2)
    /\ HasOp("commit", 2)
    /\ HasOp("push_failed", 2)
    /\ pc = "exited"
    /\ exitCode = 1

\* C13: when the submission yields no task identifier (an exception, or a
\* response without data.task_id), the driver issues no status request for
\* the file and goes on with the next one.
C13_NoTaskIdNoPoll ==
    (/\ cur > 0
     /\ HasOp("submit", cur)
     /\ pollEnd = "not_polled" \/ task_id = None) =>
        /\ attempt = 0
        /\ ~(pc = "poll" /\ idx = cur)

\* the files whose extraction task was submitted and is not yet known to have
\* ended: no poll loop of theirs has ended and they were not given up
InFlight ==
    {i \in Files :
        /\ HasOp("submit", i)
        /\ outcome[i] = "pending"
        /\ ~(i = cur /\ pollEnd \notin {"none"})}

\* C14: files are handled strictly one at a time. At most one extraction task
\* is in flight, it is the task of the file the driver is at, and no operation
\* for a later file is made before the last operation for an earlier one.
C14_OneFileAtATime ==
    /\ Cardinality(InFlight) <= 1
    /\ \A i \in InFlight : i = idx /\ pc = "poll"
    /\ \A j, k \in 1..Len(log) : j < k => log[j].file <= log[k].file
    /\ \A k \in 1..Len(log) : log[k].file <= idx
    /\ pc = "submit" => \A k \in 1..Len(log) : log[k].file < idx

\* the second file's task is in flight after the first file was pushed
C14_Witness ==
    /\ InFlight = {2}
    /\ pc = "poll"
    /\ attempt > 0
    /\ outcome[1] = "pushed"

\* the characters a sanitized name is made of
NameChars == Letters \cup Digits \cup {"_"}

\* the moves requested so far
Moves == {m \in 1..Len(log) : log[m].op = "mv"}

\* the file name of the target of move m without the extension of its source
StemOf(m) ==
    LET name == basename(log[m].dst)
        ext == splitext(basename(log[m].src))[2]
    IN  SubSeq(name, 1, Len(name) - Len(ext))

\* C15: every move requested has its target in the directory of its source,
\* with the extension of the source, and a stem that is the summary with every
\* character that is not a letter or a digit replaced by "_": the summary as
\* returned is never a component of the file name.
C15_MoveTargetShape ==
    \A m \in Moves :
        LET src == log[m].src
            dst == log[m].dst
            name == basename(dst)
            ext == splitext(basename(src))[2]
        IN  /\ dirname(dst) = dirname(src)
            /\ Len(name) > Len(ext)
            /\ SubSeq(name, Len(name) - Len(ext) + 1, Len(name)) = ext
            /\ \A k \in 1..Len(StemOf(m)) : StemOf(m)[k] \in NameChars
            /\ log[m].file = call.file =>
                /\ Len(StemOf(m)) = Len(call.summary)
                /\ \A k \in 1..Len(call.summary) :
                    StemOf(m)[k] = IF call.summary[k] \in Letters \cup Digits
                                   THEN call.summary[k]
                                   ELSE "_"

\* images/a.png was moved to images/x_y_1.png for the summary "x/y 1"
C15_Witness ==
    /\ pc = "commit"
    /\ call.file = 1
    /\ call.summary = <<"x", "/", "y", " ", "1">>
    /\ \E m \in Moves :
        /\ log[m].file = 1
        /\ log[m].src = PathA
        /\ log[m].dst = PathTaken
    /\ PathTaken \in tree
    /\ PathA \notin tree

\* the call of describe_and_rename_image just made downloaded a bundle that
\* can be opened as an archive
C16_BundleDownloaded ==
    /\ call.file > 0
    /\ call.dl = "ok"
    /\ call.zip # "badzip"

\* C16: for every bundle that was downloaded, with or without a markdown
\* entry, exactly one upload is attempted; the release named after the
\* current tag is created when there is none with that title, and an asset is
\* only ever uploaded to a release of that name.
C16_OneUploadPerBundle ==
    C16_BundleDownloaded =>
        /\ Cardinality(OpsAt("release_lookup", call.file)) = 1
        /\ Cardinality(OpsAt("create_release", call.file)) <= 1
        /\ Cardinality(OpsAt("upload_asset", call.file)) <= 1
        /\ HasOp("upload_asset", call.file) =>
            env.GITHUB_REF_NAME \in releases
        /\ call.up = "ok" => HasOp("upload_asset", call.file)

\* the same for the runs whose repository handle is the working copy
C16_HoldsForWorkingCopy ==
    repoIsGit => C16_OneUploadPerBundle

\* C17: round trip. For every file the driver processed, the local path
\* derived from the web URL built for it is the path of the changed file, so
\* every move requested names the changed file as its source.
C17_LocalPathRoundTrip ==
    /\ \A i \in Files :
        HasOp("submit", i) =>
            get_local_path_from_github_url(github_url(env, image_files[i]))
                = image_files[i]
    /\ \A m \in Moves : log[m].src = image_files[log[m].file]

\* the same for a branch or tag name without "/"
C17_HoldsWithoutSlash ==
    (\A k \in 1..Len(env.GITHUB_REF_NAME) : env.GITHUB_REF_NAME[k] # "/")
        => C17_LocalPathRoundTrip

\* the call just made is for a file whose extraction, download, markdown
\* extraction and summary all succeeded, in a run of the given kind of event
\* on a branch whose name has no "/"
C18_AllServicesSucceeded(kind) ==
    /\ env.event.kind = kind
    /\ \A k \in 1..Len(env.GITHUB_REF_NAME) : env.GITHUB_REF_NAME[k] # "/"
    /\ call.file > 0
    /\ call.dl = "ok"
    /\ call.zip = "md"
    /\ ~Absent(call.summary)

\* the file of the call was renamed and the driver is about to stage, commit
\* and push; when the changed file was there and the target name free, the
\* move went through
C18_Renamed ==
    /\ HasOp("mv", call.file)
    /\ \A m \in OpsAt("mv", call.file) :
        (/\ call.file = 1
         /\ log[m].src \in startTree
         /\ log[m].dst \notin startTree) =>
            /\ pc = "commit"
            /\ outcome[call.file] = "renamed"
            /\ log[m].dst \in tree

\* C18: the per-file workflow is the same for a pull-request event as for a
\* push: a file of a pull request whose extraction, download, markdown
\* extraction and summary all succeed is renamed, and then staged, committed
\* and pushed.
C18_PullRequestAsPush ==
    C18_AllServicesSucceeded("pull_request") => C18_Renamed

\* what push events do in the same situation
C18_HoldsForPush ==
    C18_AllServicesSucceeded("push") => C18_Renamed

====
